---------------------------- MODULE Spec2Model ----------------------------
(***************************************************************************)
(* A model of magenta/models/music_vae/js/index.ts: the MusicVAE object    *)
(* (initialize / dispose / isInitialized / interpolate / sample), the      *)
(* decoder-cell probe of initialize, the latent interpolation grid, the    *)
(* Decoder.decode generation loop, Nade.sample, and the bit utilities.     *)
(*                                                                         *)
(* Floating-point tensors are modelled by integers: a ramp value k/(n-1)   *)
(* is kept as its numerator k, sigmoid is a monotone fixed-point table,    *)
(* and the values a recurrent cell produces (latent means, logits) are     *)
(* drawn from small sets.                                                  *)
(***************************************************************************)
EXTENDS Integers, Sequences, FiniteSets, TLC

VARIABLES
    \* intsToBits / bitsToInts
    bPc, ints, depth, bits, bOut,
    \* Nade.sample: the Nade object, the arguments, the loop's locals, the result
    nPc, nade, encBias, decBias, a, nI, samples, nResult,
    \* the latent grid of interpolate: the encoded means, the argument, the grid
    iPc, z, numSteps, interpolatedZs,
    \* Decoder.decode: the Decoder object, the batch size of z, the argument
    \* length, the loop's locals, the result
    dPc, dDecoder, batchSize, length, dI, dSamples, nextInput, dResult,
    \* the checkpoint: the names getAllVariables() resolves to
    store,
    \* the decoder-cell probe of initialize
    pPc, l, decLstmLayers,
    \* the MusicVAE object: its fields, the initialize() calls awaiting the load
    encoder, decoder, rawVars, pending,
    \* the arrays alive outside any call, the number of inference calls made
    heap, calls,
    \* the last operation and its outcome; whether dispose() was ever called and
    \* whether an initialize() has bound both fields with no dispose() since
    last, everDisposed, boundSince

bitsVars == <<bPc, ints, depth, bits, bOut>>
nadeVars == <<nPc, nade, encBias, decBias, a, nI, samples, nResult>>

interpVars == <<iPc, z, numSteps, interpolatedZs>>

decodeVars == <<dPc, dDecoder, batchSize, length, dI, dSamples, nextInput, dResult>>

probeVars == <<pPc, l, decLstmLayers>>

modelVars == <<encoder, decoder, rawVars, pending, heap, calls, last, everDisposed, boundSince>>

vars == <<bitsVars, nadeVars, interpVars, decodeVars, store, probeVars, modelVars>>

\* undefined and null
Undef == [tag |-> "undefined"]
Null == [tag |-> "null"]

\* the record of an operation: its name and arguments, how it ended, what it
\* allocated, what it left alive, and which of them it returned
Outcome(op, n, len, err, encoded, decoded, allocated, live, result) ==
    [op |-> op, n |-> n, len |-> len, err |-> err, encoded |-> encoded,
     decoded |-> decoded, allocated |-> allocated, live |-> live, result |-> result]

NoOutcome == Outcome("none", 0, 0, "none", FALSE, FALSE, {}, {}, "")

-----------------------------------------------------------------------------
(* The part of the state a specification does not use stays at these values *)

BitsIdle ==
    /\ bPc = "idle"
    /\ ints = <<>>
    /\ depth = 0
    /\ bits = <<>>
    /\ bOut = <<>>

NadeIdle ==
    /\ nPc = "idle"
    /\ nade = <<>>
    /\ encBias = <<>>
    /\ decBias = <<>>
    /\ a = <<>>
    /\ nI = 0
    /\ samples = <<>>
    /\ nResult = <<>>

-----------------------------------------------------------------------------
(* Bounds *)

MaxDepth == 33
MaxInt == 3
MaxInts == 2
MaxBatch == 1
MaxHidden == 1
MaxDims == 2
MaxZ == 1
MaxSteps == 3
MaxCells == 2
MaxLen == 2
MaxOut == 2
MaxPending == 2
MaxCalls == 2
MaxSeqs == 5

InterpIdle ==
    /\ iPc = "idle"
    /\ z = <<>>
    /\ numSteps = 0
    /\ interpolatedZs = <<>>

DecodeIdle ==
    /\ dPc = "idle"
    /\ dDecoder = <<>>
    /\ batchSize = 0
    /\ length = 0
    /\ dI = 0
    /\ dSamples = <<>>
    /\ nextInput = <<>>
    /\ dResult = <<>>

ProbeIdle ==
    /\ pPc = "idle"
    /\ l = 0
    /\ decLstmLayers = <<>>

ModelIdle ==
    /\ encoder = Undef
    /\ decoder = Undef
    /\ rawVars = Undef
    /\ pending = 0
    /\ heap = {}
    /\ calls = 0
    /\ last = NoOutcome
    /\ everDisposed = FALSE
    /\ boundSince = FALSE

-----------------------------------------------------------------------------
(* JavaScript 32-bit integer operators used by intsToBits and bitsToInts *)

\* The shift count of >> and << is taken modulo 32 (count & 31).
WordBits == 32

ShiftCount(d) == d % WordBits

RECURSIVE Shr(_, _)
\* x >> s for a non-negative 32-bit x and 0 <= s < 32
Shr(x, s) == IF s = 0 THEN x ELSE Shr(x \div 2, s - 1)

\* 2 * v wrapped to a signed 32-bit integer
Double32(v) ==
    IF v >= 2^30 THEN (v - 2^30 - 2^30) + (v - 2^30 - 2^30)
    ELSE IF v < -(2^30) THEN (v + 2^30 + 2^30) + (v + 2^30 + 2^30)
    ELSE 2 * v

RECURSIVE Shl(_, _)
\* v << s for a 32-bit v and 0 <= s < 32, wrapped to a signed 32-bit integer
Shl(v, s) == IF s = 0 THEN v ELSE Shl(Double32(v), s - 1)

\* ints[i] >> d & 1
BitAt(x, d) == Shr(x, ShiftCount(d)) % 2

\* the inner loop of intsToBits without the zero case: b.push(ints[i] >> d & 1)
PushBits(x, dep) == [d \in 1..dep |-> BitAt(x, d - 1)]

\* a faulty variant: the zero sentinel is dropped
IntToBits_NoSentinel(x, dep) == PushBits(x, dep)

\* one iteration of intsToBits' outer loop: the bits of ints[i], then
\* if (ints[i] === 0) b[depth - 1] = 1
IntToBits(x, dep) ==
    LET b == PushBits(x, dep)
    IN  IF x = 0 /\ dep >= 1 THEN [b EXCEPT ![dep] = 1] ELSE b

intsToBits(xs, dep) == [i \in 1..Len(xs) |-> IntToBits(xs[i], dep)]

RECURSIVE SumShifted(_, _)
\* the inner loop of bitsToInts: b += (bits[i][d] << d), d = 0 .. length-1,
\* here summed from the last index down (the sum is a plain number, not wrapped)
SumShifted(b, n) ==
    IF n = 0 THEN 0
    ELSE SumShifted(b, n - 1) + Shl(b[n], ShiftCount(n - 1))

bitsToInts(bs) == [i \in 1..Len(bs) |-> SumShifted(bs[i], Len(bs[i]))]

-----------------------------------------------------------------------------
(* The checkpoint's names and the layer structures bound from them *)

DECODER_CELL_FORMAT == "decoder/multi_rnn_cell/cell_%d/lstm_cell/"

\* a variable name: a prefix, the number put in place of %d (-1: the prefix
\* holds none) and a leaf
VarName(prefix, d, leaf) == [prefix |-> prefix, d |-> d, leaf |-> leaf]

\* DECODER_CELL_FORMAT.replace('%d', l.toString()) + leaf
CellName(cell, leaf) == VarName(DECODER_CELL_FORMAT, cell, leaf)

EncFw(leaf) ==
    VarName("encoder/cell_0/bidirectional_rnn/fw/multi_rnn_cell/cell_0/lstm_cell/", -1, leaf)
EncBw(leaf) ==
    VarName("encoder/cell_0/bidirectional_rnn/bw/multi_rnn_cell/cell_0/lstm_cell/", -1, leaf)
EncMu(leaf) == VarName("encoder/mu/", -1, leaf)
DecZToInitState(leaf) == VarName("decoder/z_to_initial_state/", -1, leaf)
DecOutputProjection(leaf) == VarName("decoder/output_projection/", -1, leaf)
NadeWEnc == VarName("decoder/nade/", -1, "w_enc")
NadeWDecT == VarName("decoder/nade/", -1, "w_dec_t")

\* vars[name] of a name that is not in vars
Undefined == VarName("undefined", -1, "")

\* vars[name]: a tensor is known by the name it was loaded under
Lookup(vs, name) == IF name \in vs THEN name ELSE Undefined

\* new LayerVars(kernel, bias)
LayerVars(kernel, bias) == [kernel |-> kernel, bias |-> bias]

CellLayerVars(vs, cell) ==
    LayerVars(Lookup(vs, CellName(cell, "kernel")), Lookup(vs, CellName(cell, "bias")))

\* a faulty variant: the probe tests the bias name
CellPresent_Bias(vs, cell) == CellName(cell, "bias") \in vs

\* cellPrefix + 'kernel' in vars
CellPresent(vs, cell) == CellName(cell, "kernel") \in vs

-----------------------------------------------------------------------------
(* The decoder-cell probe of initialize, one iteration at a time *)

\* the names of the cells a store can hold
CellNames == {CellName(c, leaf) : c \in 0..MaxCells, leaf \in {"kernel", "bias"}}

\* const decLstmLayers = []; let l = 0;
InitProbe ==
    /\ ModelIdle
    /\ BitsIdle
    /\ NadeIdle
    /\ InterpIdle
    /\ DecodeIdle
    /\ store \in SUBSET CellNames
    /\ pPc = "while"
    /\ l = 0
    /\ decLstmLayers = <<>>

\* decLstmLayers.push(new LayerVars(...)); ++l
ProbePush ==
    /\ pPc = "while"
    /\ CellPresent(store, l)
    /\ decLstmLayers' = Append(decLstmLayers, CellLayerVars(store, l))
    /\ l' = l + 1
    /\ UNCHANGED <<pPc, store>>
    /\ UNCHANGED <<bitsVars, nadeVars, interpVars, decodeVars, modelVars>>

\* if (!(cellPrefix + 'kernel' in vars)) break
ProbeBreak ==
    /\ pPc = "while"
    /\ ~CellPresent(store, l)
    /\ pPc' = "done"
    /\ UNCHANGED <<l, decLstmLayers, store>>
    /\ UNCHANGED <<bitsVars, nadeVars, interpVars, decodeVars, modelVars>>

NextProbe ==
    \/ ProbePush
    \/ ProbeBreak

\* the loop is synchronous code: it keeps running until it breaks
SpecProbe == InitProbe /\ [][NextProbe]_vars /\ WF_vars(NextProbe)

\* the loop as a function, for initialize
RECURSIVE ProbeCells(_, _, _)
ProbeCells(vs, cell, layers) ==
    IF ~CellPresent(vs, cell) THEN layers
    ELSE ProbeCells(vs, cell + 1, Append(layers, CellLayerVars(vs, cell)))

-----------------------------------------------------------------------------
(* Claims about the probe *)

\* cell c's kernel name is absent and every smaller cell's is present
C9_FirstGap(c) ==
    /\ CellName(c, "kernel") \notin store
    /\ \A k \in 0..(c - 1) : CellName(k, "kernel") \in store

\* C9: the probe terminates, and then the depth is the smallest l whose cell
\* name is absent: cells 0..l-1 are bound in that order, names after the first
\* gap are ignored, and a store without cell_0 gives depth 0.
C9_ProbeDepth ==
    /\ <>(pPc = "done")
    /\ [](pPc = "done" =>
            /\ C9_FirstGap(l)
            /\ Len(decLstmLayers) = l
            /\ \A k \in 1..l :
                /\ decLstmLayers[k].kernel = CellName(k - 1, "kernel")
                /\ decLstmLayers[k].bias = Lookup(store, CellName(k - 1, "bias")))

\* a finished probe that bound cell_0 and ignored cell_2 behind the gap at cell_1
C9_Witness ==
    /\ pPc = "done"
    /\ l = 1
    /\ Len(decLstmLayers) = 1
    /\ CellName(1, "kernel") \notin store
    /\ CellName(2, "kernel") \in store

-----------------------------------------------------------------------------
(* The MusicVAE object: construction of its parts *)

\* new Encoder(...) reads this.muVars.bias.shape[0]
EncoderThrows(muVars) == muVars.bias = Undefined

NewEncoder(lstmFwVars, lstmBwVars, muVars) ==
    [tag |-> "Encoder", lstmFwVars |-> lstmFwVars, lstmBwVars |-> lstmBwVars,
     muVars |-> muVars]

\* new Nade(encWeights, decWeightsT) reads encWeights.shape and calls
\* decWeightsT.as2D; it is built only when 'decoder/nade/w_enc' is in vars
NadeThrows(vs) == NadeWDecT \notin vs

NewNadeOf(vs) == [tag |-> "Nade", encWeights |-> NadeWEnc, decWeightsT |-> Lookup(vs, NadeWDecT)]

\* new Decoder(...) reads this.zToInitStateVars.kernel.shape[0], and
\* outputProjectVars.bias.shape[0] when there is no Nade
DecoderThrows(zToInitStateVars, outputProjectVars, nd) ==
    \/ zToInitStateVars.kernel = Undefined
    \/ nd = Null /\ outputProjectVars.bias = Undefined

NewDecoderOf(lstmCellVars, zToInitStateVars, outputProjectVars, nd) ==
    [tag |-> "Decoder", lstmCellVars |-> lstmCellVars,
     zToInitStateVars |-> zToInitStateVars, outputProjectVars |-> outputProjectVars,
     nade |-> nd]

\* !!x of a field
Truthy(x) == x # Undef /\ x # Null

\* isInitialized() { return (!!this.encoder && !!this.decoder); }
isInitialized == Truthy(encoder) /\ Truthy(decoder)

-----------------------------------------------------------------------------
(* The MusicVAE object: what an inference call does *)

\* dl.tidy(fn): every array fn allocated is released but the one it returns
Tidy(allocated, result) == {result}

\* Encoder.encode(sequence) throws on a layer that was bound to undefined:
\* runLstm reads lstmVars.bias.shape, basicLSTMCell needs the kernel on every
\* step, dense needs muVars.kernel
EncodeThrows(enc, len) ==
    \/ enc.lstmFwVars.bias = Undefined
    \/ enc.lstmBwVars.bias = Undefined
    \/ len > 0 /\ (enc.lstmFwVars.kernel = Undefined \/ enc.lstmBwVars.kernel = Undefined)
    \/ enc.muVars.kernel = Undefined

\* the arrays Encoder.encode allocates
EncodeArrays == {"fwState", "bwState", "finalState", "mu"}

\* Decoder.decode(z, length) throws on a layer bound to undefined, on a step
\* with no cell (h[h.length - 1] is undefined), and in dl.stack when no step ran
DecodeThrows(dec, len) ==
    \/ dec.zToInitStateVars.bias = Undefined
    \/ \E k \in 1..Len(dec.lstmCellVars) : dec.lstmCellVars[k].bias = Undefined
    \/ len > 0 /\ ( \/ Len(dec.lstmCellVars) = 0
                   \/ dec.outputProjectVars.kernel = Undefined
                   \/ dec.outputProjectVars.bias = Undefined )
    \/ len = 0

\* the arrays Decoder.decode allocates
DecodeArrays == {"initialStates", "nextInput", "logits", "timeSamples", "decoded"}

\* the arrays the dl.tidy block of interpolate allocates
InterpolateArrays == {"rangeArray", "z0", "z1", "weights", "interpolatedZs"}

\* a faulty variant: 3 sequences pass the check
InvalidBatch_Allows3(n) == n # 2 /\ n # 4 /\ n # 3

\* sequences.shape[0] !== 2 && sequences.shape[0] !== 4
InvalidBatch(n) == n # 2 /\ n # 4

\* what stays alive of the arrays of a dl.tidy block that an exception left:
\* the runtime either unwinds the scope or does not
AfterThrow(allocated) == {{}, allocated}

\* interpolate(sequences, numSteps), sequences of shape [n, len, D]: the
\* outcomes it can have on the current fields
InterpolateOutcomes(n, len) ==
    IF InvalidBatch(n)
    THEN {Outcome("interpolate", n, len, "InvalidArgument", FALSE, FALSE, {}, {}, "")}
    ELSE IF ~Truthy(encoder)
    THEN {Outcome("interpolate", n, len, "TypeError", FALSE, FALSE, {}, {}, "")}
    ELSE IF EncodeThrows(encoder, len)
    THEN {Outcome("interpolate", n, len, "TypeError", FALSE, FALSE, EncodeArrays, lv, "") :
            lv \in AfterThrow(EncodeArrays)}
    ELSE LET zLive == Tidy(EncodeArrays, "mu")
             zsLive == Tidy(InterpolateArrays, "interpolatedZs")
             before == EncodeArrays \cup InterpolateArrays
         IN  IF n # 2 /\ n # 4
             \* the else branch inside the dl.tidy block
             THEN {Outcome("interpolate", n, len, "InvalidArgument", TRUE, FALSE,
                           EncodeArrays \cup {"rangeArray", "z0", "z1"}, zLive \cup lv, "") :
                     lv \in AfterThrow({"rangeArray", "z0", "z1"})}
             ELSE IF ~Truthy(decoder)
             THEN {Outcome("interpolate", n, len, "TypeError", TRUE, FALSE,
                           before, zLive \cup zsLive, "")}
             ELSE IF DecodeThrows(decoder, len)
             THEN {Outcome("interpolate", n, len, "TypeError", TRUE, FALSE,
                           before \cup DecodeArrays, zLive \cup zsLive \cup lv, "") :
                     lv \in AfterThrow(DecodeArrays)}
             ELSE {Outcome("interpolate", n, len, "none", TRUE, TRUE,
                           before \cup DecodeArrays,
                           zLive \cup zsLive \cup Tidy(DecodeArrays, "decoded"), "decoded")}

\* sample(numSamples, numSteps): one dl.tidy around randomNormal and decode
SampleOutcomes(len) ==
    IF ~Truthy(decoder)
    THEN {Outcome("sample", 0, len, "TypeError", FALSE, FALSE, {}, {}, "")}
    ELSE IF DecodeThrows(decoder, len)
    THEN {Outcome("sample", 0, len, "TypeError", FALSE, FALSE,
                  {"randZs"} \cup DecodeArrays, lv, "") :
            lv \in AfterThrow({"randZs"} \cup DecodeArrays)}
    ELSE {Outcome("sample", 0, len, "none", FALSE, TRUE, {"randZs"} \cup DecodeArrays,
                  Tidy({"randZs"} \cup Tidy(DecodeArrays, "decoded"), "decoded"), "decoded")}

\* model.encoder.encode(sequences)
EncodeOutcomes(len) ==
    IF ~Truthy(encoder)
    THEN {Outcome("encode", 0, len, "TypeError", FALSE, FALSE, {}, {}, "")}
    ELSE IF EncodeThrows(encoder, len)
    THEN {Outcome("encode", 0, len, "TypeError", FALSE, FALSE, EncodeArrays, lv, "") :
            lv \in AfterThrow(EncodeArrays)}
    ELSE {Outcome("encode", 0, len, "none", TRUE, FALSE, EncodeArrays,
                  Tidy(EncodeArrays, "mu"), "mu")}

\* model.decoder.decode(z, length)
DecodeOutcomes(len) ==
    IF ~Truthy(decoder)
    THEN {Outcome("decode", 0, len, "TypeError", FALSE, FALSE, {}, {}, "")}
    ELSE IF DecodeThrows(decoder, len)
    THEN {Outcome("decode", 0, len, "TypeError", FALSE, FALSE, DecodeArrays, lv, "") :
            lv \in AfterThrow(DecodeArrays)}
    ELSE {Outcome("decode", 0, len, "none", FALSE, TRUE, DecodeArrays,
                  Tidy(DecodeArrays, "decoded"), "decoded")}

-----------------------------------------------------------------------------
(* The MusicVAE object: its operations *)

\* the names initialize looks up by a fixed string, the Nade pair aside
FixedNames ==
    {EncFw("kernel"), EncFw("bias"), EncBw("kernel"), EncBw("bias"),
     EncMu("kernel"), EncMu("bias"),
     DecZToInitState("kernel"), DecZToInitState("bias"),
     DecOutputProjection("kernel"), DecOutputProjection("bias")}

NadeNames == {NadeWEnc, NadeWDecT}

\* a checkpoint with every name and MaxCells decoder cells
FullStore ==
    FixedNames \cup NadeNames
    \cup {CellName(c, leaf) : c \in 0..(MaxCells - 1), leaf \in {"kernel", "bias"}}

\* the checkpoints tried: the full one and the one without Nade, each also with
\* any one name missing
Stores ==
    LET drop == {{}} \cup {{x} : x \in FullStore}
    IN  {FullStore \ m : m \in drop} \cup {(FullStore \ NadeNames) \ m : m \in drop}

\* new MusicVAE(checkpointURL): no field but checkpointURL is set
Init ==
    /\ BitsIdle
    /\ NadeIdle
    /\ InterpIdle
    /\ DecodeIdle
    /\ ProbeIdle
    /\ ModelIdle
    /\ store \in Stores

Rest == <<bitsVars, nadeVars, interpVars, decodeVars, store, probeVars>>

\* initialize() up to its await: the load is in flight
InitializeCall ==
    /\ pending < MaxPending
    /\ pending' = pending + 1
    /\ last' = Outcome("initializeCall", 0, 0, "none", FALSE, FALSE, {}, {}, "")
    /\ UNCHANGED <<encoder, decoder, rawVars, heap, calls, everDisposed, boundSince>>
    /\ UNCHANGED Rest

\* reader.getAllVariables() rejects: initialize() rejects with the load error
InitializeLoadFails ==
    /\ pending > 0
    /\ pending' = pending - 1
    /\ last' = Outcome("initialize", 0, 0, "LoadError", FALSE, FALSE, {}, {}, "")
    /\ UNCHANGED <<encoder, decoder, rawVars, heap, calls, everDisposed, boundSince>>
    /\ UNCHANGED Rest

\* initialize() after its await, with vars the loaded checkpoint
InitializeResume ==
    /\ pending > 0
    /\ pending' = pending - 1
    /\ LET vs == store
           encLstmFw == LayerVars(Lookup(vs, EncFw("kernel")), Lookup(vs, EncFw("bias")))
           encLstmBw == LayerVars(Lookup(vs, EncBw("kernel")), Lookup(vs, EncBw("bias")))
           encMu == LayerVars(Lookup(vs, EncMu("kernel")), Lookup(vs, EncMu("bias")))
           layers == ProbeCells(vs, 0, <<>>)
           decZtoInitState == LayerVars(Lookup(vs, DecZToInitState("kernel")),
                                        Lookup(vs, DecZToInitState("bias")))
           decOutputProjection == LayerVars(Lookup(vs, DecOutputProjection("kernel")),
                                            Lookup(vs, DecOutputProjection("bias")))
           hasNade == NadeWEnc \in vs
           nd == IF hasNade THEN NewNadeOf(vs) ELSE Null
           failed == Outcome("initialize", 0, 0, "TypeError", FALSE, FALSE, {}, {}, "")
       IN  IF (hasNade /\ NadeThrows(vs)) \/ EncoderThrows(encMu)
           THEN /\ last' = failed
                /\ UNCHANGED <<encoder, decoder, rawVars, boundSince>>
           ELSE IF DecoderThrows(decZtoInitState, decOutputProjection, nd)
           THEN /\ encoder' = NewEncoder(encLstmFw, encLstmBw, encMu)
                /\ last' = failed
                /\ UNCHANGED <<decoder, rawVars, boundSince>>
           ELSE /\ encoder' = NewEncoder(encLstmFw, encLstmBw, encMu)
                /\ decoder' = NewDecoderOf(layers, decZtoInitState, decOutputProjection, nd)
                /\ rawVars' = [tag |-> "vars", names |-> vs, disposed |-> FALSE]
                /\ boundSince' = TRUE
                /\ last' = Outcome("initialize", 0, 0, "none", FALSE, FALSE, {}, {}, "")
    /\ UNCHANGED <<heap, calls, everDisposed>>
    /\ UNCHANGED Rest

\* dispose(): Object.keys(this.rawVars) throws while rawVars is undefined
Dispose ==
    /\ IF rawVars = Undef
       THEN /\ last' = Outcome("dispose", 0, 0, "TypeError", FALSE, FALSE, {}, {}, "")
            /\ UNCHANGED <<encoder, decoder, rawVars, everDisposed, boundSince>>
       ELSE /\ rawVars' = [rawVars EXCEPT !.disposed = TRUE]
            /\ encoder' = Null
            /\ decoder' = Null
            /\ everDisposed' = TRUE
            /\ boundSince' = FALSE
            /\ last' = Outcome("dispose", 0, 0, "none", FALSE, FALSE, {}, {}, "")
    /\ UNCHANGED <<pending, heap, calls>>
    /\ UNCHANGED Rest

\* an inference call that ended as o: what it left alive joins the heap
Finish(o) ==
    /\ calls < MaxCalls
    /\ calls' = calls + 1
    /\ heap' = heap \cup {[call |-> calls + 1, tag |-> t] : t \in o.live}
    /\ last' = o
    /\ UNCHANGED <<encoder, decoder, rawVars, pending, everDisposed, boundSince>>
    /\ UNCHANGED Rest

Interpolate ==
    \E n \in 1..MaxSeqs, len \in 1..MaxLen : \E o \in InterpolateOutcomes(n, len) : Finish(o)

Sample == \E len \in 0..MaxLen : \E o \in SampleOutcomes(len) : Finish(o)

Encode == \E len \in 1..MaxLen : \E o \in EncodeOutcomes(len) : Finish(o)

Decode == \E len \in 0..MaxLen : \E o \in DecodeOutcomes(len) : Finish(o)

Next ==
    \/ InitializeCall
    \/ InitializeLoadFails
    \/ InitializeResume
    \/ Dispose
    \/ Interpolate
    \/ Sample
    \/ Encode
    \/ Decode

Spec == Init /\ [][Next]_vars

-----------------------------------------------------------------------------
(* Claims about the MusicVAE object *)

InferenceOps == {"interpolate", "sample", "encode", "decode"}

\* the arrays the last inference call left on the heap
LeftByLastCall == {h.tag : h \in {x \in heap : x.call = calls}}

\* C1: interpolate with a batch size other than 2 and 4 fails with the
\* invalid-argument error before anything is computed (no encode, no decode, no
\* array allocated or left alive); with 2 or 4 sequences it does not raise that error.
C1_InvalidBatchRejected ==
    last.op = "interpolate" =>
        /\ last.n \notin {2, 4} =>
            /\ last.err = "InvalidArgument"
            /\ ~last.encoded
            /\ ~last.decoded
            /\ last.allocated = {}
            /\ LeftByLastCall = {}
        /\ last.n \in {2, 4} => last.err # "InvalidArgument"

\* three sequences rejected by a model that is initialized
C1_Witness ==
    /\ last.op = "interpolate"
    /\ last.n = 3
    /\ last.err = "InvalidArgument"
    /\ isInitialized

\* C2: once dispose() has run, isInitialized() is false in every later state and
\* every encode, decode, sample or interpolate call is rejected with an error.
C2_DisposeIrreversible ==
    everDisposed =>
        /\ ~isInitialized
        /\ last.op \in InferenceOps => last.err # "none"

\* the names C3 calls required: the fixed ones and the bias of every decoder
\* cell whose kernel is in the store
C3_Required ==
    FixedNames \cup {CellName(c, "bias") : c \in {k \in 0..MaxCells : CellName(k, "kernel") \in store}}

\* C3: initialize() fails and leaves the model uninitialized whenever a required
\* name is missing from the store; when only the Nade names are missing it
\* succeeds with the categorical head (no Nade).
C3_MissingNameFatal ==
    (last.op = "initialize" /\ last.err # "LoadError") =>
        /\ ~(C3_Required \subseteq store) => (last.err # "none" /\ ~isInitialized)
        /\ (C3_Required \subseteq store /\ store \cap NadeNames = {}) =>
            (last.err = "none" /\ isInitialized /\ decoder.nade = Null)

\* C4: isInitialized() is true exactly when an initialize() has bound both the
\* encoder and the decoder with no dispose() since (so it is false on a new
\* model and while the first load is pending), and the encoder and the decoder
\* are never bound one without the other.
C4_BothOrNeither ==
    /\ isInitialized <=> boundSince
    /\ Truthy(encoder) <=> Truthy(decoder)

\* C8: when encode, decode, sample or interpolate returns, the arrays alive are
\* those alive before the call plus exactly the result.
C8_OnlyResultSurvives ==
    (last.op \in InferenceOps /\ last.err = "none") => LeftByLastCall = {last.result}

-----------------------------------------------------------------------------
(* Fixed-point tensors: a value v stands for v / Unit *)

\* dl.scalar(0.5), the threshold of Nade.sample
Half == 500

Unit == 2 * Half

\* dl.sigmoid on a fixed-point value: strictly between 0 and 1, monotone,
\* sigmoid(0) = 0.5 (the table is indexed by the floor of the value)
Sigmoid(v) ==
    LET f == v \div Unit
    IN  IF f <= -3 THEN 47
        ELSE IF f = -2 THEN 119
        ELSE IF f = -1 THEN 269
        ELSE IF f = 0 THEN Half
        ELSE IF f = 1 THEN 731
        ELSE IF f = 2 THEN 881
        ELSE 953

\* the product of two fixed-point values
FMul(x, y) == (x * y) \div Unit

RECURSIVE Dot(_, _, _)
\* the dot product of the first n entries of two vectors (one entry of matMul)
Dot(u, v, n) == IF n = 0 THEN 0 ELSE Dot(u, v, n - 1) + FMul(u[n], v[n])

\* dl.stack(tensors, axis) takes its rank and shape from tensors[0]: the runtime
\* rejects an empty list
StackRejects(list) == Len(list) = 0

\* dl.stack(samples, 1) of a list of per-batch-row entries: result[b][i] = samples[i][b]
Stack1(list, batch) == [b \in 1..batch |-> [i \in 1..Len(list) |-> list[i][b]]]

-----------------------------------------------------------------------------
(* Nade.sample *)

\* the weight values tried, and the weight matrices built from a seed
WeightVals == <<-Unit, 0, Unit>>

WeightMatrix(seed, dims, hidden) ==
    [i \in 1..dims |-> [k \in 1..hidden |-> WeightVals[((seed + i + 2 * k) % 3) + 1]]]

WeightSeeds == 0..2

\* new Nade(encWeights, decWeightsT): numDims = shape[0], numHidden = shape[2]
NewNade(encWeights, decWeightsT, dims, hidden) ==
    [encWeights |-> encWeights, decWeightsT |-> decWeightsT,
     numDims |-> dims, numHidden |-> hidden]

\* a faulty variant: the conditional logits use the encoder weight row
CondLogitsI_EncRow(nd, h, dBias, i, batch) ==
    [b \in 1..batch |-> dBias[b][i] + Dot(h[b], nd.encWeights[i], nd.numHidden)]

\* condLogitsI = decBiasI.add(dl.matMul(h, decWeightsTI, false, true)), per batch row
CondLogitsI(nd, h, dBias, i, batch) ==
    [b \in 1..batch |-> dBias[b][i] + Dot(h[b], nd.decWeightsT[i], nd.numHidden)]

\* samplesI = condLogitsI.sigmoid().greaterEqual(dl.scalar(0.5)).toFloat()
SamplesI(condLogits, batch) ==
    [b \in 1..batch |-> IF Sigmoid(condLogits[b]) >= Half THEN 1 ELSE 0]

\* a.add(dl.outerProduct(samplesI, encWeightsI))
AddOuter(acc, sI, encWeightsI, batch, hidden) ==
    [b \in 1..batch |-> [k \in 1..hidden |-> acc[b][k] + sI[b] * encWeightsI[k]]]

\* if (i < this.numDims - 1) a = a.add(...)   (i is 1-based here)
NadeUpdate(nd, acc, sI, i, batch) ==
    IF i < nd.numDims
    THEN AddOuter(acc, sI, nd.encWeights[i], batch, nd.numHidden)
    ELSE acc

BiasVals == {-Half, Half}

\* sample() has been entered: a = encBias.clone(), samples = [], i = 0
InitNade ==
    /\ ModelIdle
    /\ store = {}
    /\ ProbeIdle
    /\ DecodeIdle
    /\ BitsIdle
    /\ InterpIdle
    /\ nPc = "loop"
    /\ \E dims \in 1..MaxDims, hidden \in 1..MaxHidden, s1 \in WeightSeeds, s2 \in WeightSeeds :
        nade = NewNade(WeightMatrix(s1, dims, hidden), WeightMatrix(s2, dims, hidden),
                       dims, hidden)
    /\ \E batch \in 1..MaxBatch :
        /\ encBias \in [1..batch -> [1..nade.numHidden -> {-Unit, 0, Unit}]]
        /\ decBias \in [1..batch -> [1..nade.numDims -> BiasVals]]
    /\ a = encBias
    /\ nI = 0
    /\ samples = <<>>
    /\ nResult = <<>>

\* one iteration of the for loop of sample()
NadeIterate ==
    /\ nPc = "loop"
    /\ nI < nade.numDims
    /\ LET batch == Len(encBias)
           h == [b \in 1..batch |-> [k \in 1..nade.numHidden |-> Sigmoid(a[b][k])]]
           sI == SamplesI(CondLogitsI(nade, h, decBias, nI + 1, batch), batch)
       IN  /\ a' = NadeUpdate(nade, a, sI, nI + 1, batch)
           /\ samples' = Append(samples, sI)
    /\ nI' = nI + 1
    /\ UNCHANGED <<nPc, nade, encBias, decBias, nResult>>
    /\ UNCHANGED <<bitsVars, interpVars, decodeVars, store, probeVars, modelVars>>

\* return dl.stack(samples, 1)
NadeReturn ==
    /\ nPc = "loop"
    /\ nI = nade.numDims
    /\ nResult' = Stack1(samples, Len(encBias))
    /\ nPc' = "done"
    /\ UNCHANGED <<nade, encBias, decBias, a, nI, samples>>
    /\ UNCHANGED <<bitsVars, interpVars, decodeVars, store, probeVars, modelVars>>

NextNade ==
    \/ NadeIterate
    \/ NadeReturn

SpecNade == InitNade /\ [][NextNade]_vars

\* Nade.sample as a function, for Decoder.decode
RECURSIVE NadeLoop(_, _, _, _, _)
NadeLoop(nd, acc, dBias, i, acc_samples) ==
    IF i = nd.numDims THEN acc_samples
    ELSE LET batch == Len(dBias)
             h == [b \in 1..batch |-> [k \in 1..nd.numHidden |-> Sigmoid(acc[b][k])]]
             sI == SamplesI(CondLogitsI(nd, h, dBias, i + 1, batch), batch)
         IN  NadeLoop(nd, NadeUpdate(nd, acc, sI, i + 1, batch), dBias, i + 1,
                      Append(acc_samples, sI))

NadeSample(nd, eBias, dBias) == Stack1(NadeLoop(nd, eBias, dBias, 0, <<>>), Len(eBias))

-----------------------------------------------------------------------------
(* Claims about Nade.sample *)

RECURSIVE C10_Acc(_, _, _)
\* a_i of batch row b, hidden unit k: encBias plus the encoder rows of the
\* dimensions before i (0-based) that were sampled 1
C10_Acc(b, k, i) ==
    IF i = 0 THEN encBias[b][k]
    ELSE C10_Acc(b, k, i - 1) + nResult[b][i] * nade.encWeights[i][k]

RECURSIVE C10_DecDot(_, _, _)
\* sigmoid(a_i) . decWeightsT[i] over the first n hidden units
C10_DecDot(b, i, n) ==
    IF n = 0 THEN 0
    ELSE C10_DecDot(b, i, n - 1)
         + (Sigmoid(C10_Acc(b, n, i)) * nade.decWeightsT[i + 1][n]) \div Unit

\* C10: the result has numDims entries per batch row, each 0 or 1; entry i is 1
\* exactly when sigmoid(decBias[:, i] + sigmoid(a_i) . decWeightsT[i]) >= 0.5 with
\* a_0 = encBias and a_(i+1) = a_i + sample_i * encWeights[i]; the accumulator is
\* left at a_(numDims-1), the update after the last dimension being skipped.
C10_NadeSample ==
    nPc = "done" =>
        /\ Len(nResult) = Len(encBias)
        /\ \A b \in 1..Len(encBias) :
            /\ Len(nResult[b]) = nade.numDims
            /\ \A i \in 0..(nade.numDims - 1) :
                /\ nResult[b][i + 1] \in {0, 1}
                /\ nResult[b][i + 1] = 1 <=>
                     Sigmoid(decBias[b][i + 1] + C10_DecDot(b, i, nade.numHidden)) >= Half
            /\ \A k \in 1..nade.numHidden : a[b][k] = C10_Acc(b, k, nade.numDims - 1)

\* a finished call whose second dimension was decided by the first one's sample:
\* with the accumulator left at encBias the second sample would differ
C10_Witness ==
    /\ nPc = "done"
    /\ nade.numDims >= 2
    /\ \E b \in 1..Len(encBias) :
        /\ nResult[b][1] = 1
        /\ a[b] # encBias[b]
        /\ (nResult[b][2] = 1) #
             (Sigmoid(decBias[b][2]
                      + Dot([k \in 1..nade.numHidden |-> Sigmoid(encBias[b][k])],
                            nade.decWeightsT[2], nade.numHidden)) >= Half)

-----------------------------------------------------------------------------
(* Decoder.decode *)

\* new Decoder(lstmCellVars, zToInitStateVars, outputProjectVars, nade), by its
\* sizes: the number of cells, the width of the output projection, the optional
\* Nade (<<>> for null); outputDims = nade ? nade.numDims : outputProjectVars.bias.shape[0]
NewDecoder(numCells, projectionWidth, nd) ==
    [numCells |-> numCells,
     projectionWidth |-> projectionWidth,
     outputDims |-> IF nd # <<>> THEN nd[1].numDims ELSE projectionWidth,
     nade |-> nd]

\* the logits dense(outputProjectVars, h[h.length - 1]) can hold: what the
\* recurrent cells compute is not modelled, a step's logits are one of these
LogitVals == <<-Half, 0, Half>>

LogitSeeds == 0..2

Logits(seed, batch, width) ==
    [b \in 1..batch |-> [k \in 1..width |-> LogitVals[(((seed + b) * k + seed) % 3) + 1]]]

RECURSIVE ArgMaxFrom(_, _, _)
\* the index (0-based) of the first largest of row[k..], given the best so far
ArgMaxFrom(row, k, best) ==
    IF k > Len(row) THEN best - 1
    ELSE ArgMaxFrom(row, k + 1, IF row[k] > row[best] THEN k ELSE best)

\* logits.argMax(1)
ArgMax(logits) == [b \in 1..Len(logits) |-> ArgMaxFrom(logits[b], 1, 1)]

\* dl.oneHot(timeLabels, outputDims).toFloat()
OneHot(labels, width) ==
    [b \in 1..Len(labels) |-> [k \in 1..width |-> IF k - 1 = labels[b] THEN 1 ELSE 0]]

\* logits.slice([0, from], [batchSize, width])
SliceCols(logits, from, width) ==
    [b \in 1..Len(logits) |-> [k \in 1..width |-> logits[b][from + k]]]

\* dl.zeros([batchSize, this.outputDims])
Zeros(batch, width) == [b \in 1..batch |-> [k \in 1..width |-> 0]]

\* decode() has been entered: the cells are set up, samples = [], nextInput = zeros
InitDecode ==
    /\ ModelIdle
    /\ store = {}
    /\ ProbeIdle
    /\ BitsIdle
    /\ NadeIdle
    /\ InterpIdle
    /\ dPc = "loop"
    /\ \E numCells \in 0..MaxCells :
        \/ \E width \in 1..MaxOut : dDecoder = NewDecoder(numCells, width, <<>>)
        \/ \E dims \in 1..MaxDims, hidden \in 1..MaxHidden, s1 \in WeightSeeds :
             dDecoder = NewDecoder(numCells, hidden + dims,
                                   <<NewNade(WeightMatrix(s1, dims, hidden),
                                             WeightMatrix(s1 + 1, dims, hidden),
                                             dims, hidden)>>)
    /\ batchSize \in 1..(MaxBatch + 1)   \* at least two rows, so that stack(., 1) shows
    /\ length \in 0..MaxLen
    /\ dI = 0
    /\ dSamples = <<>>
    /\ nextInput = Zeros(batchSize, dDecoder.outputDims)
    /\ dResult = <<>>

\* an iteration with no cell: h is empty, h[h.length - 1] is undefined and
\* dense() throws on it
DecodeStepNoCells ==
    /\ dPc = "loop"
    /\ dI < length
    /\ dDecoder.numCells = 0
    /\ dPc' = "threw"
    /\ UNCHANGED <<dDecoder, batchSize, length, dI, dSamples, nextInput, dResult>>
    /\ UNCHANGED <<bitsVars, nadeVars, interpVars, store, probeVars, modelVars>>

\* an iteration of the generation loop, this.nade == null
DecodeStepArgMax ==
    /\ dPc = "loop"
    /\ dI < length
    /\ dDecoder.numCells > 0
    /\ dDecoder.nade = <<>>
    /\ \E seed \in LogitSeeds :
        LET logits == Logits(seed, batchSize, dDecoder.projectionWidth)
            timeLabels == ArgMax(logits)
        IN  /\ nextInput' = OneHot(timeLabels, dDecoder.outputDims)
            /\ dSamples' = Append(dSamples, [b \in 1..batchSize |-> <<timeLabels[b]>>])
    /\ dI' = dI + 1
    /\ UNCHANGED <<dPc, dDecoder, batchSize, length, dResult>>
    /\ UNCHANGED <<bitsVars, nadeVars, interpVars, store, probeVars, modelVars>>

\* an iteration of the generation loop, with a Nade
DecodeStepNade ==
    /\ dPc = "loop"
    /\ dI < length
    /\ dDecoder.numCells > 0
    /\ dDecoder.nade # <<>>
    /\ \E seed \in LogitSeeds :
        LET nd == dDecoder.nade[1]
            logits == Logits(seed, batchSize, dDecoder.projectionWidth)
            eBias == SliceCols(logits, 0, nd.numHidden)
            dBias == SliceCols(logits, nd.numHidden, nd.numDims)
        IN  /\ nextInput' = NadeSample(nd, eBias, dBias)
            /\ dSamples' = Append(dSamples, nextInput')
    /\ dI' = dI + 1
    /\ UNCHANGED <<dPc, dDecoder, batchSize, length, dResult>>
    /\ UNCHANGED <<bitsVars, nadeVars, interpVars, store, probeVars, modelVars>>

\* return dl.stack(samples, 1)
DecodeReturn ==
    /\ dPc = "loop"
    /\ dI = length
    /\ ~StackRejects(dSamples)
    /\ dResult' = Stack1(dSamples, batchSize)
    /\ dPc' = "done"
    /\ UNCHANGED <<dDecoder, batchSize, length, dI, dSamples, nextInput>>
    /\ UNCHANGED <<bitsVars, nadeVars, interpVars, store, probeVars, modelVars>>

\* dl.stack(samples, 1) with no sample throws
DecodeStackThrows ==
    /\ dPc = "loop"
    /\ dI = length
    /\ StackRejects(dSamples)
    /\ dPc' = "threw"
    /\ UNCHANGED <<dDecoder, batchSize, length, dI, dSamples, nextInput, dResult>>
    /\ UNCHANGED <<bitsVars, nadeVars, interpVars, store, probeVars, modelVars>>

NextDecode ==
    \/ DecodeStepNoCells
    \/ DecodeStepArgMax
    \/ DecodeStepNade
    \/ DecodeReturn
    \/ DecodeStackThrows

SpecDecode == InitDecode /\ [][NextDecode]_vars

-----------------------------------------------------------------------------
(* Claims about Decoder.decode *)

\* a step's output fits the configured head
C5_StepOk(out) ==
    IF dDecoder.nade = <<>>
    THEN Len(out) = 1 /\ out[1] \in 0..(dDecoder.outputDims - 1)
    ELSE Len(out) = dDecoder.nade[1].numDims /\ \A k \in 1..Len(out) : out[k] \in {0, 1}

\* C5: decode(z, length) of a decoder with at least one cell returns, for every
\* length >= 0 (length = 0 included, which is no error), exactly length steps per
\* batch row, each an index in [0, outputDims) without Nade and a 0/1 vector of
\* width numDims with Nade.
C5_DecodeEveryLength ==
    (dPc \in {"done", "threw"} /\ dDecoder.numCells > 0) =>
        /\ dPc = "done"
        /\ Len(dResult) = batchSize
        /\ \A b \in 1..batchSize :
            /\ Len(dResult[b]) = length
            /\ \A t \in 1..length : C5_StepOk(dResult[b][t])

-----------------------------------------------------------------------------
(* Tensors of the latent grid: a shape, the values in row-major order, and a
   common denominator (the value at an index is data[index] / den) *)

Tensor(shape, data, den) == [shape |-> shape, data |-> data, den |-> den]

\* what a rejected operation (a shape mismatch) leaves in place of a tensor
ShapeError == Tensor(<<>>, <<>>, 0)

RECURSIVE Size(_)
Size(shape) == IF shape = <<>> THEN 1 ELSE Head(shape) * Size(Tail(shape))

\* dl.linspace(0.0, 1.0, num): the value at index k is k / (num - 1)
Linspace(num) == Tensor(<<num>>, [k \in 1..num |-> k - 1], num - 1)

\* z.slice([row, 0], [1, z.shape[1]]).as1D()
SliceRow(t, row) ==
    LET w == t.shape[2]
    IN  Tensor(<<w>>, [k \in 1..w |-> t.data[row * w + k]], t.den)

\* x.sub(y) of two tensors of one shape
Sub(x, y) ==
    Tensor(x.shape, [k \in 1..Len(x.data) |-> x.data[k] * y.den - y.data[k] * x.den],
           x.den * y.den)

\* dl.scalar(1.0).sub(t)
OneMinus(t) == Tensor(t.shape, [k \in 1..Len(t.data) |-> t.den - t.data[k]], t.den)

\* dl.outerProduct(v1, v2): [n1, n2], entry (i, j) = v1[i] * v2[j]
OuterProduct(v1, v2) ==
    LET n1 == v1.shape[1]
        n2 == v2.shape[1]
    IN  Tensor(<<n1, n2>>,
               [p \in 1..(n1 * n2) |->
                    v1.data[((p - 1) \div n2) + 1] * v2.data[((p - 1) % n2) + 1]],
               v1.den * v2.den)

\* t.as3D(d1, d2, d3) and t.as2D(d1, d2): the same values under another shape
Reshape(t, shape) ==
    IF Size(shape) = Len(t.data) THEN Tensor(shape, t.data, t.den) ELSE ShapeError

\* v.mul(t) of v: [w] and t: [r, c, 1], broadcast to [r, c, w]
MulBroadcast(v, t) ==
    LET w == v.shape[1]
        r == t.shape[1]
        c == t.shape[2]
    IN  Tensor(<<r, c, w>>,
               [p \in 1..(r * c * w) |->
                    v.data[((p - 1) % w) + 1] * t.data[((p - 1) \div w) + 1]],
               v.den * t.den)

\* dl.addStrict(x, y): the shapes must be equal
AddStrict(x, y) ==
    IF x.shape # y.shape THEN ShapeError
    ELSE Tensor(x.shape,
                [k \in 1..Len(x.data) |-> x.data[k] * y.den + y.data[k] * x.den],
                x.den * y.den)

\* m.add(v) of m: [n, w] and v: [w], broadcast over the rows
AddRows(m, v) ==
    LET w == v.shape[1]
    IN  Tensor(m.shape,
               [p \in 1..Len(m.data) |->
                    m.data[p] * v.den + v.data[((p - 1) % w) + 1] * m.den],
               m.den * v.den)

\* a faulty variant: the z1 and z2 terms take each other's weights
Bilinear_Swapped(z0, z1, z2, z3, rangeArray, r) ==
    LET revRangeArray == OneMinus(rangeArray)
        t0 == MulBroadcast(z0, Reshape(OuterProduct(revRangeArray, revRangeArray), <<r, r, 1>>))
        t1 == MulBroadcast(z1, Reshape(OuterProduct(revRangeArray, rangeArray), <<r, r, 1>>))
        t2 == MulBroadcast(z2, Reshape(OuterProduct(rangeArray, revRangeArray), <<r, r, 1>>))
        t3 == MulBroadcast(z3, Reshape(OuterProduct(rangeArray, rangeArray), <<r, r, 1>>))
    IN  AddStrict(AddStrict(AddStrict(t0, t1), t2), t3)

\* the N = 4 branch of interpolate, up to finalZs
Bilinear(z0, z1, z2, z3, rangeArray, r) ==
    LET revRangeArray == OneMinus(rangeArray)
        t0 == MulBroadcast(z0, Reshape(OuterProduct(revRangeArray, revRangeArray), <<r, r, 1>>))
        t1 == MulBroadcast(z1, Reshape(OuterProduct(rangeArray, revRangeArray), <<r, r, 1>>))
        t2 == MulBroadcast(z2, Reshape(OuterProduct(revRangeArray, rangeArray), <<r, r, 1>>))
        t3 == MulBroadcast(z3, Reshape(OuterProduct(rangeArray, rangeArray), <<r, r, 1>>))
    IN  AddStrict(AddStrict(AddStrict(t0, t1), t2), t3)

\* the dl.tidy block of interpolate: the latent points decoded
InterpolatedZs(zs, steps) ==
    LET rangeArray == Linspace(steps)
        z0 == SliceRow(zs, 0)
        z1 == SliceRow(zs, 1)
    IN  IF zs.shape[1] = 2
        THEN AddRows(OuterProduct(rangeArray, Sub(z1, z0)), z0)
        ELSE IF zs.shape[1] = 4
        THEN Reshape(Bilinear(z0, z1, SliceRow(zs, 2), SliceRow(zs, 3), rangeArray, steps),
                     <<steps * steps, zs.shape[2]>>)
        ELSE ShapeError

ZVals == {-1, 0, 2}

\* interpolate has encoded its 2 or 4 sequences into z
InitInterp ==
    /\ ModelIdle
    /\ store = {}
    /\ ProbeIdle
    /\ DecodeIdle
    /\ BitsIdle
    /\ NadeIdle
    /\ iPc = "encoded"
    /\ \E n \in {2, 4}, w \in 1..MaxZ :
        \E d \in [1..(n * w) -> ZVals] : z = Tensor(<<n, w>>, d, 1)
    /\ numSteps \in 2..MaxSteps
    /\ interpolatedZs = <<>>

ComputeInterpolatedZs ==
    /\ iPc = "encoded"
    /\ interpolatedZs' = InterpolatedZs(z, numSteps)
    /\ iPc' = "done"
    /\ UNCHANGED <<z, numSteps>>
    /\ UNCHANGED <<bitsVars, nadeVars, decodeVars, store, probeVars, modelVars>>

NextInterp == ComputeInterpolatedZs

SpecInterp == InitInterp /\ [][NextInterp]_vars

-----------------------------------------------------------------------------
(* Claims about the latent grid *)

\* entry k (0-based) of latent mean row p
C6_Z(p, k) == z.data[p * z.shape[2] + k + 1]

\* C6: for N = 4 and numSteps = n >= 2 the grid has n*n points, and the point at
\* flattened index i*n + j is z0*(1-r)*(1-c) + z1*r*(1-c) + z2*(1-r)*c + z3*r*c with
\* r = i/(n-1), c = j/(n-1); for n = 2 the points at (r, c) = (0,0), (1,0), (0,1),
\* (1,1) are z0, z1, z2, z3 themselves.
C6_BilinearGrid ==
    (iPc = "done" /\ z.shape[1] = 4) =>
        LET n == numSteps
            w == z.shape[2]
            D == n - 1
            g == interpolatedZs
        IN  /\ g # ShapeError
            /\ g.shape = <<n * n, w>>
            /\ Len(g.data) = n * n * w
            /\ \A i \in 0..(n - 1), j \in 0..(n - 1), k \in 0..(w - 1) :
                g.data[(i * n + j) * w + k + 1] * D * D =
                    g.den * ( C6_Z(0, k) * (D - i) * (D - j) + C6_Z(1, k) * i * (D - j)
                            + C6_Z(2, k) * (D - i) * j + C6_Z(3, k) * i * j )
            /\ n = 2 =>
                \A i \in 0..1, j \in 0..1, k \in 0..(w - 1) :
                    g.data[(i * 2 + j) * w + k + 1] = g.den * C6_Z(i + 2 * j, k)

\* a 3 x 3 grid over four distinct corners whose centre is not a corner
C6_Witness ==
    /\ iPc = "done"
    /\ z.shape = <<4, 1>>
    /\ z.data = <<-1, 0, 2, 2>>
    /\ numSteps = 3
    /\ interpolatedZs.shape = <<9, 1>>
    /\ 4 * interpolatedZs.data[5] = 3 * interpolatedZs.den

-----------------------------------------------------------------------------
(* intsToBits followed by bitsToInts, on bounded inputs *)

\* the integers tried at a depth: the small ones and the largest one below
\* 2^(depth-1) (where that is a 32-bit number)
BitsInputs(dep) ==
    (0..MaxInt) \cup (IF dep >= 2 /\ dep <= 31 THEN {2^(dep - 1) - 1} ELSE {})

InitBits ==
    /\ ModelIdle
    /\ store = {}
    /\ ProbeIdle
    /\ DecodeIdle
    /\ NadeIdle
    /\ InterpIdle
    /\ bPc = "start"
    /\ depth \in 1..MaxDepth
    /\ \E n \in 1..MaxInts : ints \in [1..n -> BitsInputs(depth)]
    /\ bits = <<>>
    /\ bOut = <<>>

CallIntsToBits ==
    /\ bPc = "start"
    /\ bits' = intsToBits(ints, depth)
    /\ bPc' = "bits"
    /\ UNCHANGED <<ints, depth, bOut>>
    /\ UNCHANGED <<nadeVars, interpVars, decodeVars, store, probeVars, modelVars>>

CallBitsToInts ==
    /\ bPc = "bits"
    /\ bOut' = bitsToInts(bits)
    /\ bPc' = "ints"
    /\ UNCHANGED <<ints, depth, bits>>
    /\ UNCHANGED <<nadeVars, interpVars, decodeVars, store, probeVars, modelVars>>

NextBits ==
    \/ CallIntsToBits
    \/ CallBitsToInts

SpecBits == InitBits /\ [][NextBits]_vars

-----------------------------------------------------------------------------
(* Claims about the bit utilities *)

RECURSIVE BelowPow2(_, _)
\* x < 2^k, without computing 2^k
BelowPow2(x, k) == IF k = 0 THEN x < 1 ELSE BelowPow2(x \div 2, k - 1)

RECURSIVE IsPow2(_, _)
\* v = 2^k, without computing 2^k
IsPow2(v, k) ==
    IF k = 0 THEN v = 1
    ELSE v > 0 /\ v % 2 = 0 /\ IsPow2(v \div 2, k - 1)

\* the round trip at one input, as the claim states it
RoundTripAt(i) ==
    /\ (ints[i] > 0 /\ BelowPow2(ints[i], depth - 1)) => bOut[i] = ints[i]
    /\ ints[i] = 0 => IsPow2(bOut[i], depth - 1)

\* C7 as stated: for every depth d >= 1, bitsToInts(intsToBits([x], d)) = [x]
\* for 0 < x < 2^(d-1), and [2^(d-1)] for x = 0.
C7_RoundTripEveryDepth ==
    bPc = "ints" => \A i \in 1..Len(ints) : RoundTripAt(i)

\* C7 amended: the same for every depth 1 <= d <= 31 (the shifts are 32-bit);
\* the bits are emitted least-significant first, and a zero input sets exactly
\* bit index d-1.
C7_RoundTripDepthBelow32 ==
    (bPc = "ints" /\ depth <= 31) =>
        /\ Len(bOut) = Len(ints)
        /\ \A i \in 1..Len(ints) :
            /\ RoundTripAt(i)
            /\ Len(bits[i]) = depth
            /\ ints[i] > 0 =>
                \A k \in 0..(depth - 1) : bits[i][k + 1] = (ints[i] \div 2^k) % 2
            /\ ints[i] = 0 =>
                \A k \in 0..(depth - 1) :
                    bits[i][k + 1] = (IF k = depth - 1 THEN 1 ELSE 0)

\* a nonzero input below 2^(d-1) and a zero input, both through the round trip
C7_Witness ==
    /\ bPc = "ints"
    /\ depth = 3
    /\ ints = <<3, 0>>
    /\ bOut = <<3, 4>>

=============================================================================
